---- MODULE Spec2Model ----
(***************************************************************************)
(* Model of run() and waitForCompletion() of the lynqa GitHub action       *)
(* (src/unnamed/part_000).  run() is one async function on a               *)
(* single-threaded event loop: the code between two awaits is one or more  *)
(* steps that no signal handler can interleave with, and the signal        *)
(* handler onStop runs only while run() is suspended at an await.          *)
(***************************************************************************)
EXTENDS Naturals, Sequences, FiniteSets

\* ---------------------------------------------------------------- bounds
MaxFiles == 2     \* files returned by findJsonFiles
MaxRuns == 2      \* tests declared over all files together
MaxPolls == 2     \* status queries of one run before the clock passes the ceiling
MaxSignals == 2   \* signals delivered to the process

\* ------------------------------------------------------ program constants
TEST_TIMEOUT == 1000 * 60 * 30
PollInterval == 30000

None == "none"
\* the null run id and the empty label of lines 23-24
NoRun == 0
NoLabel == <<>>

VARIABLES
  files,         \* what findJsonFiles found: per file, what reading it yields
  hasStop,       \* the client object has a stopTestRuns operation
  pc,            \* position of run()
  fi, ti,        \* loop positions: file (1-based), test within the file (1-based)
  shouldStop, currentRunId, currentLabel, failedTests,
  handlers,      \* signals for which onStop is registered
  exc,           \* an exception is propagating out of the batch loop
  outcome,       \* what run() reported at its end
  elapsed,       \* Date.now() - start of the current poller
  polls,         \* status queries issued by the current poller
  createCalls,   \* tests for which client.addTestRun was invoked, in order
  stops,         \* client.stopTestRuns invocations, in order
  signals,       \* deliveries of a signal to onStop, in order
  ended,         \* concluded tests and how each ended, in order
  onCalls, offCalls  \* process.on / process.off invocations

\* the state of run()
runVars == <<files, hasStop, pc, fi, ti, shouldStop, currentRunId, currentLabel,
             failedTests, handlers, exc, outcome, elapsed, polls,
             createCalls, stops, signals, ended,
             onCalls, offCalls>>

\* one call of replacePlaceholders and its surroundings
VARIABLES
  rpEnv,         \* process.env: per key its value, or Undefined
  rpInputs,      \* the action's inputs as core.getInput returns them
  rpParts,       \* the pieces the argument is made of
  rpStr,         \* the argument: a string (sequence of characters) or Undefined
  rpOut          \* the results of applying the function once, then again

rpVars == <<rpEnv, rpInputs, rpParts, rpStr, rpOut>>

vars == <<runVars, rpVars>>

\* ------------------------------------------------------------ input space
\* What reading one file yields:
\*   "unreadable": readFileSync or JSON.parse throws
\*   "null":       the file parses to the JSON value null
\*   "nolist":     the file parses to a value whose .tests is not an array
\*   "ok":         the file parses to an object with n tests
FileShapes ==
  [kind : {"unreadable", "null", "nolist"}, n : {0}]
    \cup [kind : {"ok"}, n : 0..MaxRuns]

RECURSIVE SumTests(_)
SumTests(fs) == IF fs = <<>> THEN 0 ELSE Head(fs).n + SumTests(Tail(fs))

FileLists ==
  {fs \in UNION {[1..k -> FileShapes] : k \in 0..MaxFiles} : SumTests(fs) <= MaxRuns}

Statuses == {"WAITING", "RUNNING", "SUCCESS", "ERROR", "PAUSED"}

\* the label of test t of file f (basename#ordinal) and the id the remote
\* executor hands out for its run: distinct runs get distinct ids
Label(f, t) == <<f, t>>
RunId(f, t) == 10 * f + t

NumTests(f) == IF files[f].kind = "ok" THEN files[f].n ELSE 0

AwaitPcs == {"awaitCreate", "awaitStatus", "sleeping", "awaitStop"}
EndPcs == {"done", "threw"}

NoOutcome == [kind |-> "none", count |-> 0, labels |-> <<>>]

\* ---------------------------------------------------------------------
\* replacePlaceholders (lines 164-182).  A string is a sequence of
\* one-character strings; Undefined stands for a value that is not a string.

MaxParts == 2

Undefined == <<"undefined">>

\* the names the environment and the inputs are asked for
Keys == {<<"K">>, <<"M">>}

\* "{{" pad scope "." key pad "}}"
Token(pad, scope, key) ==
  <<"{", "{">> \o pad \o scope \o <<".">> \o key \o pad \o <<"}", "}">>

EnvWord == <<"e", "n", "v">>
InputWord == <<"i", "n", "p", "u", "t">>

\* what an argument is made of: tokens of both scopes (bare, padded with
\* spaces, in mixed case), malformed tokens, brace fragments and plain text;
\* scope and key say what a piece asks for, "none" when it asks for nothing
Pieces ==
  { [text |-> Token(<<>>, EnvWord, <<"K">>), scope |-> "env", key |-> <<"K">>],
    [text |-> Token(<<" ">>, <<"E", "n", "V">>, <<"K">>), scope |-> "env", key |-> <<"K">>],
    [text |-> Token(<<>>, EnvWord, <<"M">>), scope |-> "env", key |-> <<"M">>],
    [text |-> Token(<<>>, InputWord, <<"K">>), scope |-> "input", key |-> <<"K">>],
    [text |-> Token(<<" ">>, <<"I", "n", "p", "u", "T">>, <<"M">>), scope |-> "input", key |-> <<"M">>],
    [text |-> Token(<<>>, <<"f", "o", "o">>, <<"K">>), scope |-> "none", key |-> <<>>],
    [text |-> Token(<<>>, EnvWord, <<>>), scope |-> "none", key |-> <<>>],
    [text |-> Token(<<>>, EnvWord, <<"K", " ", "M">>), scope |-> "none", key |-> <<>>],
    [text |-> <<"{", "{">>, scope |-> "none", key |-> <<>>],
    [text |-> <<"}", "}">>, scope |-> "none", key |-> <<>>],
    [text |-> <<"{">>, scope |-> "none", key |-> <<>>],
    [text |-> <<"a">>, scope |-> "none", key |-> <<>>],
    [text |-> <<" ">>, scope |-> "none", key |-> <<>>] }

PartLists == UNION { [1..n -> Pieces] : n \in 0..MaxParts }

RECURSIVE Flatten(_)
Flatten(ss) ==
  IF ss = <<>> THEN <<>> ELSE Head(ss) \o Flatten(Tail(ss))

TextOf(parts) == Flatten([i \in DOMAIN parts |-> parts[i].text])

\* process.env: a variable is absent, empty, plain, or itself a token
EnvChoices ==
  { e \in [Keys -> {Undefined, <<>>, <<"v">>, Token(<<>>, EnvWord, <<"M">>)}] :
      e[<<"M">>] \in {Undefined, <<"v">>} }

\* the action's inputs: core.getInput returns '' for one that was not given
InputChoices ==
  { n \in [Keys -> {<<>>, <<"w">>, Token(<<>>, EnvWord, <<"K">>)}] :
      n[<<"M">>] \in {<<>>, <<"w">>} }

\* process.env[key]
GetEnv(key) == IF key \in Keys THEN rpEnv[key] ELSE Undefined

\* core.getInput(key)
GetInput(key) == IF key \in Keys THEN rpInputs[key] ELSE <<>>

IsBrace(c) == c \in {"{", "}"}

\* String.prototype.toLowerCase, on the letters that occur
Lower(c) ==
  CASE c = "E" -> "e" [] c = "N" -> "n" [] c = "V" -> "v" [] c = "I" -> "i"
    [] c = "P" -> "p" [] c = "U" -> "u" [] c = "T" -> "t" [] c = "K" -> "k"
    [] c = "M" -> "m" [] OTHER -> c

toLowerCase(s) == [i \in DOMAIN s |-> Lower(s[i])]

\* [A-Z0-9_] under the i flag, on the characters that occur
KeyChars == {"K", "M", "E", "N", "V", "I", "P", "U", "T",
             "k", "m", "e", "n", "v", "i", "p", "u", "t", "f", "o", "a", "w", "_"}

\* String.prototype.trim
RECURSIVE trim(_)
trim(s) ==
  IF s = <<>> THEN s
  ELSE IF Head(s) = " " THEN trim(Tail(s))
  ELSE IF s[Len(s)] = " " THEN trim(SubSeq(s, 1, Len(s) - 1))
  ELSE s

\* [^{}]+ is greedy: the length of the run of non-brace characters at i
RECURSIVE RunLen(_, _)
RunLen(s, i) ==
  IF i > Len(s) \/ IsBrace(s[i]) THEN 0 ELSE 1 + RunLen(s, i + 1)

\* the length of the match of /\{\{([^{}]+)}}/ that starts at i, 0 for none
MatchLen(s, i) ==
  LET n == RunLen(s, i + 2)
  IN  IF /\ i + 1 <= Len(s)
         /\ s[i] = "{" /\ s[i + 1] = "{"
         /\ n >= 1
         /\ i + 3 + n <= Len(s)
         /\ s[i + 2 + n] = "}" /\ s[i + 3 + n] = "}"
      THEN n + 4
      ELSE 0

\* /^(env|input)\.([A-Z0-9_]+)$/i on the trimmed inner text: the length of
\* the scope word, 0 when the expression does not match
ScopeLen(trimmed) ==
  LET Starts(word) ==
        /\ Len(trimmed) > Len(word) + 1
        /\ toLowerCase(SubSeq(trimmed, 1, Len(word))) = word
        /\ trimmed[Len(word) + 1] = "."
        /\ \A i \in (Len(word) + 2)..Len(trimmed) : trimmed[i] \in KeyChars
  IN  IF Starts(EnvWord) THEN Len(EnvWord)
      ELSE IF Starts(InputWord) THEN Len(InputWord)
      ELSE 0

\* a replacer that tests the environment variable for truth, not for presence
ReplacerTruthyEnv(match, inner) ==
  LET trimmed == trim(inner)
      n == ScopeLen(trimmed)
      type == toLowerCase(SubSeq(trimmed, 1, n))
      key == SubSeq(trimmed, n + 2, Len(trimmed))
  IN  IF n = 0 THEN match
      ELSE IF type = EnvWord /\ GetEnv(key) \notin {Undefined, <<>>} THEN GetEnv(key)
      ELSE IF type = InputWord /\ GetInput(key) # <<>> THEN GetInput(key)
      ELSE match

\* a replacer that blanks what it cannot resolve
ReplacerBlankUnknown(match, inner) ==
  LET trimmed == trim(inner)
      n == ScopeLen(trimmed)
      type == toLowerCase(SubSeq(trimmed, 1, n))
      key == SubSeq(trimmed, n + 2, Len(trimmed))
  IN  IF n = 0 THEN <<>>
      ELSE IF type = EnvWord /\ GetEnv(key) # Undefined THEN GetEnv(key)
      ELSE IF type = InputWord /\ GetInput(key) # <<>> THEN GetInput(key)
      ELSE <<>>

\* the replacer callback of line 166
Replacer(match, inner) ==
  LET trimmed == trim(inner)
      n == ScopeLen(trimmed)
      type == toLowerCase(SubSeq(trimmed, 1, n))
      key == SubSeq(trimmed, n + 2, Len(trimmed))
  IN  IF n = 0 THEN match
      ELSE IF type = EnvWord /\ GetEnv(key) # Undefined THEN GetEnv(key)
      ELSE IF type = InputWord /\ GetInput(key) # <<>> THEN GetInput(key)
      ELSE match

\* String.prototype.replace with a global expression: one pass from left to
\* right over the original string, matches do not overlap, what the callback
\* returns is not scanned
RECURSIVE ReplaceFrom(_, _)
ReplaceFrom(s, i) ==
  IF i > Len(s) THEN <<>>
  ELSE LET n == MatchLen(s, i)
       IN  IF n = 0 THEN <<s[i]>> \o ReplaceFrom(s, i + 1)
           ELSE Replacer(SubSeq(s, i, i + n - 1), SubSeq(s, i + 2, i + n - 3))
                  \o ReplaceFrom(s, i + n)

\* a resolver that scans what it has inserted once more
replacePlaceholdersRescanning(str) ==
  IF str = Undefined \/ Len(str) = 0 THEN str
  ELSE ReplaceFrom(ReplaceFrom(str, 1), 1)

replacePlaceholders(str) ==
  IF str = Undefined \/ Len(str) = 0 THEN str
  ELSE ReplaceFrom(str, 1)

\* run() does not keep what the function returns: its variables at rest
RpIdle ==
  /\ rpEnv = [k \in Keys |-> Undefined]
  /\ rpInputs = [k \in Keys |-> <<>>]
  /\ rpParts = <<>>
  /\ rpStr = Undefined
  /\ rpOut = <<>>

Init ==
  /\ files \in FileLists
  /\ hasStop \in BOOLEAN
  /\ pc = "start"
  /\ fi = 1 /\ ti = 1
  /\ shouldStop = FALSE
  /\ currentRunId = NoRun
  /\ currentLabel = NoLabel
  /\ failedTests = <<>>
  /\ handlers = {}
  /\ exc = FALSE
  /\ outcome = NoOutcome
  /\ elapsed = 0 /\ polls = 0
  /\ createCalls = <<>>
  /\ stops = <<>>
  /\ signals = <<>>
  /\ ended = <<>>
  /\ onCalls = 0 /\ offCalls = 0
  /\ RpIdle

\* ------------------------------------------------------------------ run()
\* lines 15-40: no file found ends run() before any handler is registered
Start ==
  /\ pc = "start"
  /\ IF Len(files) = 0
       THEN /\ outcome' = [kind |-> "nofiles", count |-> 0, labels |-> <<>>]
            /\ pc' = "done"
            /\ UNCHANGED <<handlers, onCalls>>
       ELSE /\ handlers' = {"SIGINT", "SIGTERM"}
            /\ onCalls' = onCalls + 2
            /\ pc' = "fileLoop"
            /\ UNCHANGED outcome
  /\ UNCHANGED <<files, hasStop, fi, ti, shouldStop, currentRunId, currentLabel,
                 failedTests, exc, elapsed, polls, createCalls,
                 stops, signals, ended, offCalls>>
  /\ UNCHANGED rpVars

\* lines 43-57: head of the file loop, reading and parsing one file
FileLoop ==
  /\ pc = "fileLoop"
  /\ IF fi > Len(files) \/ shouldStop
       THEN pc' = "finally" /\ UNCHANGED <<fi, ti, exc>>
       ELSE CASE files[fi].kind = "unreadable" ->
                   fi' = fi + 1 /\ pc' = "fileLoop" /\ UNCHANGED <<ti, exc>>
              [] files[fi].kind = "null" ->
                   \* content.tests on null throws outside any try of the loop
                   exc' = TRUE /\ pc' = "finally" /\ UNCHANGED <<fi, ti>>
              [] files[fi].kind = "nolist" ->
                   fi' = fi + 1 /\ pc' = "fileLoop" /\ UNCHANGED <<ti, exc>>
              [] files[fi].kind = "ok" ->
                   ti' = 1 /\ pc' = "testLoop" /\ UNCHANGED <<fi, exc>>
  /\ UNCHANGED <<files, hasStop, shouldStop, currentRunId, currentLabel,
                 failedTests, handlers, outcome, elapsed, polls,
                 createCalls, stops, signals, ended,
                 onCalls, offCalls>>
  /\ UNCHANGED rpVars

\* line 59: the test loop goes on to submit the next test
TestContinue == ti <= NumTests(fi) /\ ~shouldStop

\* lines 58-74: head of the test loop; submits the test by invoking addTestRun
TestLoop ==
  /\ pc = "testLoop"
  /\ IF TestContinue
       THEN /\ createCalls' = Append(createCalls, <<fi, ti>>)
            /\ pc' = "awaitCreate"
            /\ UNCHANGED fi
       ELSE /\ fi' = fi + 1
            /\ pc' = "fileLoop"
            /\ UNCHANGED createCalls
  /\ UNCHANGED <<files, hasStop, ti, shouldStop, currentRunId, currentLabel,
                 failedTests, handlers, exc, outcome, elapsed, polls,
                 stops, signals, ended, onCalls, offCalls>>
  /\ UNCHANGED rpVars

\* a variant of line 83 that pushes the label whatever the status
FailedAlways(status) == TRUE

\* line 83: a returned status counts as a failure
Failed(status) == status # "SUCCESS"

\* a variant of lines 83, 89-95 without the finally block: the active run is
\* not cleared when the test concludes
ConcludeKeepingRun(failed, how, status, diag) ==
  /\ failedTests' = IF failed THEN Append(failedTests, Label(fi, ti)) ELSE failedTests
  /\ UNCHANGED <<currentRunId, currentLabel>>
  /\ ended' = Append(ended, [test |-> <<fi, ti>>, how |-> how, status |-> status,
                             diag |-> diag])
  /\ elapsed' = 0
  /\ polls' = 0
  /\ ti' = ti + 1
  /\ pc' = "testLoop"

\* lines 83, 89-95: the test concludes: its label is pushed when it failed,
\* the finally block clears the active run, and the loop moves to the next test.
\* how: "createRaised", "pollRaised" (diag: the error the outer catch got) or
\* "returned" (with the status returned and the diagnostic the poller logged)
Conclude(failed, how, status, diag) ==
  /\ failedTests' = IF failed THEN Append(failedTests, Label(fi, ti)) ELSE failedTests
  /\ currentRunId' = NoRun
  /\ currentLabel' = NoLabel
  /\ ended' = Append(ended, [test |-> <<fi, ti>>, how |-> how, status |-> status,
                             diag |-> diag])
  /\ elapsed' = 0
  /\ polls' = 0
  /\ ti' = ti + 1
  /\ pc' = "testLoop"

\* a variant of lines 65, 76-82 that does not await the poller: the loop goes
\* on to the next test while the run is in flight
CreateReturnsDetached ==
  /\ pc = "awaitCreate"
  /\ currentRunId' = RunId(fi, ti)
  /\ currentLabel' = Label(fi, ti)
  /\ ti' = ti + 1
  /\ pc' = "testLoop"
  /\ UNCHANGED <<files, hasStop, fi, shouldStop, failedTests, handlers, exc,
                 outcome, elapsed, polls, createCalls, stops, signals, ended,
                 onCalls, offCalls>>
  /\ UNCHANGED rpVars

\* a variant of lines 135-143 that sleeps before the first status query
CreateReturnsSleepFirst ==
  /\ pc = "awaitCreate"
  /\ currentRunId' = RunId(fi, ti)
  /\ currentLabel' = Label(fi, ti)
  /\ elapsed' = 0
  /\ polls' = 0
  /\ pc' = "sleeping"
  /\ UNCHANGED <<files, hasStop, fi, ti, shouldStop, failedTests, handlers, exc,
                 outcome, createCalls, stops, signals, ended, onCalls, offCalls>>
  /\ UNCHANGED rpVars

\* lines 65, 76-82, 135: addTestRun resolves with the run's id; the poller starts
CreateReturns ==
  /\ pc = "awaitCreate"
  /\ currentRunId' = RunId(fi, ti)
  /\ currentLabel' = Label(fi, ti)
  /\ elapsed' = 0
  /\ polls' = 0
  /\ pc' = "pollLoop"
  /\ UNCHANGED <<files, hasStop, fi, ti, shouldStop, failedTests, handlers, exc,
                 outcome, createCalls, stops,
                 signals, ended, onCalls, offCalls>>
  /\ UNCHANGED rpVars

\* a variant of lines 65, 89-95 without the catch: the rejection leaves the loops
CreateRaisesUncaught ==
  /\ pc = "awaitCreate"
  /\ exc' = TRUE
  /\ pc' = "finally"
  /\ UNCHANGED <<files, hasStop, fi, ti, shouldStop, currentRunId, currentLabel,
                 failedTests, handlers, outcome, elapsed, polls, createCalls,
                 stops, signals, ended, onCalls, offCalls>>
  /\ UNCHANGED rpVars

\* lines 65, 89-95: addTestRun rejects
CreateRaises ==
  /\ pc = "awaitCreate"
  /\ Conclude(TRUE, "createRaised", None, None)
  /\ UNCHANGED <<files, hasStop, fi, shouldStop, handlers, exc, outcome,
                 createCalls, stops, signals,
                 onCalls, offCalls>>
  /\ UNCHANGED rpVars

\* ---------------------------------------------------- waitForCompletion()
\* a variant of line 137 that does not consult the stop predicate
PollContinueIgnoringStop == elapsed < TEST_TIMEOUT

\* line 137: the loop condition
PollContinue == elapsed < TEST_TIMEOUT /\ ~shouldStop

\* a variant of lines 151-157 that logs the timeout whatever ended the loop
ExitDiagTimeoutOnly == "timeout"

\* lines 151-157: the diagnostic logged after the loop
ExitDiag == IF shouldStop THEN "aborted" ELSE "timeout"

\* a variant of lines 137-157 whose loop tests only the stop predicate and
\* skips the query once the ceiling is reached: it spins until a signal
PollLoopSpinsAtCeiling ==
  /\ pc = "pollLoop"
  /\ IF PollContinue
       THEN /\ polls' = polls + 1
            /\ pc' = "awaitStatus"
            /\ UNCHANGED <<ti, currentRunId, currentLabel, failedTests, ended,
                           elapsed>>
       ELSE IF shouldStop
              THEN Conclude(Failed("ERROR"), "returned", "ERROR", ExitDiag)
              ELSE UNCHANGED <<pc, polls, ti, currentRunId, currentLabel,
                               failedTests, ended, elapsed>>
  /\ UNCHANGED <<files, hasStop, fi, shouldStop, handlers, exc, outcome,
                 createCalls, stops, signals, onCalls, offCalls>>
  /\ UNCHANGED rpVars

\* a variant of lines 137-157 that asks the remote executor to stop a run
\* that timed out
PollLoopStopsOnTimeout ==
  /\ pc = "pollLoop"
  /\ IF PollContinue
       THEN /\ polls' = polls + 1
            /\ pc' = "awaitStatus"
            /\ UNCHANGED <<ti, currentRunId, currentLabel, failedTests, ended,
                           elapsed, stops>>
       ELSE /\ Conclude(Failed("ERROR"), "returned", "ERROR", ExitDiag)
            /\ stops' = IF shouldStop THEN stops
                        ELSE Append(stops, [run |-> currentRunId, by |-> "timeout"])
  /\ UNCHANGED <<files, hasStop, fi, shouldStop, handlers, exc, outcome,
                 createCalls, signals, onCalls, offCalls>>
  /\ UNCHANGED rpVars

\* lines 137-138, 151-157: head of the poll loop: the next status query is
\* issued, or the poller returns ERROR with the abort or timeout diagnostic
PollLoop ==
  /\ pc = "pollLoop"
  /\ IF PollContinue
       THEN /\ polls' = polls + 1
            /\ pc' = "awaitStatus"
            /\ UNCHANGED <<ti, currentRunId, currentLabel, failedTests, ended,
                           elapsed>>
       ELSE Conclude(Failed("ERROR"), "returned", "ERROR", ExitDiag)
  /\ UNCHANGED <<files, hasStop, fi, shouldStop, handlers, exc, outcome,
                 createCalls, stops, signals,
                 onCalls, offCalls>>
  /\ UNCHANGED rpVars

\* line 140: the statuses after which the poller sleeps and polls again
IsNonTerminal(s) == s \in {"RUNNING", "WAITING"}

\* lines 138-148: getTestRunFullStatus resolves with status s
StatusReturns(s) ==
  /\ pc = "awaitStatus"
  /\ IF IsNonTerminal(s)
       THEN /\ pc' = "sleeping"
            /\ UNCHANGED <<ti, currentRunId, currentLabel, failedTests, ended,
                           elapsed, polls>>
       ELSE Conclude(Failed(s), "returned", s, "finished")
  /\ UNCHANGED <<files, hasStop, fi, shouldStop, handlers, exc, outcome,
                 createCalls, stops, signals,
                 onCalls, offCalls>>
  /\ UNCHANGED rpVars

\* lines 138, 84-85: getTestRunFullStatus rejects; the catch block invokes
\* client.stopTestRuns, which throws at once when the client has no such operation
StatusRaises ==
  /\ pc = "awaitStatus"
  /\ IF hasStop
       THEN /\ stops' = Append(stops, [run |-> currentRunId, by |-> "catch"])
            /\ pc' = "awaitStop"
            /\ UNCHANGED <<ti, currentRunId, currentLabel, failedTests, ended,
                           elapsed, polls>>
       ELSE /\ Conclude(TRUE, "pollRaised", None, "stopAbsent")
            /\ UNCHANGED stops
  /\ UNCHANGED <<files, hasStop, fi, shouldStop, handlers, exc, outcome,
                 createCalls, signals,
                 onCalls, offCalls>>
  /\ UNCHANGED rpVars

\* a variant of lines 85-95 in which a rejected stop request is not caught by
\* the outer catch and leaves the loops
StopSettlesUncaught(ok) ==
  /\ pc = "awaitStop"
  /\ ok \in BOOLEAN
  /\ IF ok
       THEN /\ Conclude(TRUE, "pollRaised", None, "statusError")
            /\ UNCHANGED exc
       ELSE /\ exc' = TRUE
            /\ pc' = "finally"
            /\ UNCHANGED <<failedTests, currentRunId, currentLabel, ended,
                           elapsed, polls, ti>>
  /\ UNCHANGED <<files, hasStop, fi, shouldStop, handlers, outcome,
                 createCalls, stops, signals, onCalls, offCalls>>
  /\ UNCHANGED rpVars

\* lines 85-95: the stop request of the catch block resolves (the status error
\* is rethrown) or rejects (its own error is thrown); the outer catch takes both
StopSettles(ok) ==
  /\ pc = "awaitStop"
  /\ ok \in BOOLEAN
  /\ Conclude(TRUE, "pollRaised", None, IF ok THEN "statusError" ELSE "stopError")
  /\ UNCHANGED <<files, hasStop, fi, shouldStop, handlers, exc, outcome,
                 createCalls, stops, signals,
                 onCalls, offCalls>>
  /\ UNCHANGED rpVars

\* lines 143-144, 160-162: the timer fires after 30000 ms or later; a run
\* polled MaxPolls times finds the clock past the ceiling
SleepEnds(late) ==
  /\ pc = "sleeping"
  /\ late \/ polls < MaxPolls
  /\ elapsed' = IF late THEN TEST_TIMEOUT ELSE elapsed + PollInterval
  /\ pc' = "pollLoop"
  /\ UNCHANGED <<files, hasStop, fi, ti, shouldStop, currentRunId, currentLabel,
                 failedTests, handlers, exc, outcome, polls,
                 createCalls, stops, signals, ended,
                 onCalls, offCalls>>
  /\ UNCHANGED rpVars

\* ------------------------------------------------------------ onStop()
\* lines 26-36: a registered signal arrives while run() is suspended.  The
\* stop request is invoked at once; a client without the operation makes the
\* call throw inside the try, and a rejected request is caught there too:
\* either way onStop only logs, so nothing else of the state changes
Signal(sig) ==
  /\ sig \in handlers
  /\ pc \in AwaitPcs
  /\ Len(signals) < MaxSignals
  /\ shouldStop' = TRUE
  /\ signals' = Append(signals, [at |-> pc, test |-> <<fi, ti>>, run |-> currentRunId])
  /\ stops' = IF currentRunId # NoRun /\ hasStop
                THEN Append(stops, [run |-> currentRunId, by |-> "signal"])
                ELSE stops
  /\ UNCHANGED <<files, hasStop, pc, fi, ti, currentRunId, currentLabel,
                 failedTests, handlers, exc, outcome, elapsed, polls,
                 createCalls, ended, onCalls, offCalls>>
  /\ UNCHANGED rpVars

\* ------------------------------------------------------------ end of run()
\* a variant of lines 98-101 without try/finally: the handlers are removed
\* only when the loops end normally
FinallyOnReturnOnly ==
  /\ pc = "finally"
  /\ IF exc
       THEN /\ pc' = "threw"
            /\ outcome' = [kind |-> "exception", count |-> 0, labels |-> <<>>]
            /\ UNCHANGED <<handlers, offCalls>>
       ELSE /\ pc' = "report"
            /\ handlers' = {}
            /\ offCalls' = offCalls + 2
            /\ UNCHANGED outcome
  /\ UNCHANGED <<files, hasStop, fi, ti, shouldStop, currentRunId, currentLabel,
                 failedTests, exc, elapsed, polls, createCalls, stops,
                 signals, ended, onCalls>>
  /\ UNCHANGED rpVars

\* lines 98-101: the finally block of the batch loop
Finally ==
  /\ pc = "finally"
  /\ handlers' = {}
  /\ offCalls' = offCalls + 2
  /\ IF exc
       THEN /\ pc' = "threw"
            /\ outcome' = [kind |-> "exception", count |-> 0, labels |-> <<>>]
       ELSE /\ pc' = "report"
            /\ UNCHANGED outcome
  /\ UNCHANGED <<files, hasStop, fi, ti, shouldStop, currentRunId, currentLabel,
                 failedTests, exc, elapsed, polls, createCalls, stops, signals, ended, onCalls>>
  /\ UNCHANGED rpVars

\* a variant of lines 103-113 without the check of the stop flag
OverallIgnoringStop ==
  IF Len(failedTests) > 0
    THEN [kind |-> "failed", count |-> Len(failedTests), labels |-> failedTests]
    ELSE [kind |-> "success", count |-> 0, labels |-> <<>>]

\* lines 103-113: the overall outcome: setFailed with the stop notice, setFailed
\* with the count and labels of the failed tests, or process.exit(0)
Overall ==
  IF shouldStop
    THEN [kind |-> "stopped", count |-> 0, labels |-> <<>>]
    ELSE IF Len(failedTests) > 0
           THEN [kind |-> "failed", count |-> Len(failedTests),
                 labels |-> failedTests]
           ELSE [kind |-> "success", count |-> 0, labels |-> <<>>]

\* lines 103-113: run() reports and ends
Report ==
  /\ pc = "report"
  /\ outcome' = Overall
  /\ pc' = "done"
  /\ UNCHANGED <<files, hasStop, fi, ti, shouldStop, currentRunId, currentLabel,
                 failedTests, handlers, exc, elapsed, polls,
                 createCalls, stops, signals, ended,
                 onCalls, offCalls>>
  /\ UNCHANGED rpVars

Next ==
  \/ Start
  \/ FileLoop
  \/ TestLoop
  \/ CreateReturns
  \/ CreateRaises
  \/ PollLoop
  \/ \E s \in Statuses : StatusReturns(s)
  \/ StatusRaises
  \/ \E ok \in BOOLEAN : StopSettles(ok)
  \/ \E late \in BOOLEAN : SleepEnds(late)
  \/ \E sig \in {"SIGINT", "SIGTERM"} : Signal(sig)
  \/ Finally
  \/ Report

Spec == Init /\ [][Next]_vars

\* the steps of run() itself: the synchronous code runs to its next await,
\* every remote call settles and every timer fires
RunSteps ==
  \/ Start
  \/ FileLoop
  \/ TestLoop
  \/ CreateReturns
  \/ CreateRaises
  \/ PollLoop
  \/ \E s \in Statuses : StatusReturns(s)
  \/ StatusRaises
  \/ \E ok \in BOOLEAN : StopSettles(ok)
  \/ \E late \in BOOLEAN : SleepEnds(late)
  \/ Finally
  \/ Report

\* run() under an event loop that keeps running it; signals may or may not come
FairSpec == Spec /\ WF_vars(RunSteps)

\* ------------------------------------------------------------------ claims
Range(q) == {q[i] : i \in DOMAIN q}

\* an entry of ended that is a failure: the submission or a status query
\* raised, or the poller returned a status other than SUCCESS
IsFailure(e) == e.how \in {"createRaised", "pollRaised"} \/ e.status # "SUCCESS"

\* the labels of the tests that ended in a failure, in the order they ended
RECURSIVE FailedLabels(_)
FailedLabels(es) ==
  IF es = <<>> THEN <<>>
  ELSE (IF IsFailure(Head(es)) THEN <<Label(Head(es).test[1], Head(es).test[2])>>
        ELSE <<>>) \o FailedLabels(Tail(es))

\* C1: in every reachable state each test has at most one entry in the
\* failed-test list, every entry belongs to a test whose poller returned a
\* status other than SUCCESS or whose submission or polling raised, and a test
\* whose poller returned SUCCESS has no entry.
C1_FailedEntries ==
  /\ \A i, j \in DOMAIN failedTests : failedTests[i] = failedTests[j] => i = j
  /\ \A i \in DOMAIN failedTests :
       \E k \in DOMAIN ended :
         /\ Label(ended[k].test[1], ended[k].test[2]) = failedTests[i]
         /\ IsFailure(ended[k])
  /\ \A k \in DOMAIN ended :
       (ended[k].how = "returned" /\ ended[k].status = "SUCCESS")
         => Label(ended[k].test[1], ended[k].test[2]) \notin Range(failedTests)

\* a run ended with one test that succeeded and one that failed
C1_Witness ==
  /\ pc = "done"
  /\ Len(failedTests) = 1
  /\ \E k \in DOMAIN ended : ended[k].how = "returned" /\ ended[k].status = "SUCCESS"

\* C2: when run() reaches its report after at least one file, the outcome is
\* the success exit exactly when no test failed and no signal ever set the
\* stop flag; with the stop flag set it is the stopped-by-user failure whatever
\* the failed list holds; otherwise it is a failure carrying the count and the
\* labels of exactly the tests that failed.
C2_Outcome ==
  (pc = "done" /\ outcome.kind # "nofiles") =>
    /\ outcome.kind = "success" <=> (FailedLabels(ended) = <<>> /\ signals = <<>>)
    /\ signals # <<>> => outcome = [kind |-> "stopped", count |-> 0, labels |-> <<>>]
    /\ (signals = <<>> /\ FailedLabels(ended) # <<>>) =>
         outcome = [kind |-> "failed", count |-> Len(FailedLabels(ended)),
                    labels |-> FailedLabels(ended)]

\* run() reported the stopped-by-user outcome while the failed list holds a test
C2_Witness ==
  /\ pc = "done"
  /\ outcome.kind = "stopped"
  /\ failedTests # <<>>

\* the stop requests issued for run id r
StopsFor(r) == {k \in DOMAIN stops : stops[k].run = r}

\* C3: whenever a signal is delivered while a run is being polled (its handle
\* is active, its poller has not returned), run() ends with the stopped-by-user
\* outcome and the stop operation is invoked for that handle exactly once in
\* the whole execution.
C3_StopExactlyOnce ==
  (pc \in EndPcs /\ hasStop) =>
    \A i \in DOMAIN signals :
      signals[i].at \in {"awaitStatus", "sleeping"} =>
        /\ outcome.kind = "stopped"
        /\ Cardinality(StopsFor(signals[i].run)) = 1

\* C4: whenever a signal is received between the invocation of createRun for a
\* test and the conclusion of that test, and the submission yields a handle, a
\* stop request for that handle has been issued by the time run() ends.
C4_StopReachesRun ==
  (pc \in EndPcs /\ hasStop) =>
    \A i \in DOMAIN signals :
      (\E k \in DOMAIN ended :
         ended[k].test = signals[i].test /\ ended[k].how # "createRaised")
        => StopsFor(RunId(signals[i].test[1], signals[i].test[2])) # {}

\* C5: once the stop flag is set no submission and no status query is
\* initiated any more: the poll loop returns, the test loop and the file loop
\* are left, and the remaining tests and files are not processed.
C5_NoWorkAfterStop ==
  [][shouldStop =>
       /\ createCalls' = createCalls
       /\ polls' <= polls
       /\ pc = "pollLoop" => pc' = "testLoop"
       /\ pc = "testLoop" => pc' = "fileLoop"
       /\ pc = "fileLoop" => pc' = "finally"]_vars

\* run() ended stopped with a test of the input never submitted
C5_Witness ==
  /\ pc = "done"
  /\ shouldStop
  /\ Len(createCalls) < SumTests(files)

\* the file loop gets as far as file f: no earlier file, nor f, parses to null
LoopReaches(f) == \A g \in 1..f : files[g].kind # "null"

\* the tests the loops get to when nothing stops them
TestsInReach ==
  {x \in (1..Len(files)) \X (1..MaxRuns) :
     x[2] <= NumTests(x[1]) /\ LoopReaches(x[1])}

\* C6: no per-test error aborts the batch: a test that ends by a submission
\* error, a status-query error, a terminal status other than SUCCESS or a
\* timeout is recorded as failed, no exception leaves run() because of it, and
\* with the stop flag never set every following test the file loop gets to is
\* still submitted.
C6_ErrorsDoNotAbort ==
  /\ \A k \in DOMAIN ended :
       IsFailure(ended[k])
         => Label(ended[k].test[1], ended[k].test[2]) \in Range(failedTests)
  /\ outcome.kind = "exception" => (fi \in DOMAIN files /\ files[fi].kind = "null")
  /\ (pc \in EndPcs /\ ~shouldStop) => TestsInReach \subseteq Range(createCalls)

\* run() ended, never stopped, after a test that timed out and a later test
C6_Witness ==
  /\ pc = "done"
  /\ ~shouldStop
  /\ Len(ended) = 2
  /\ ended[1].diag = "timeout"

\* C7: a file that is unreadable, unparseable or parses to a value without a
\* test list is skipped: nothing is submitted or recorded for it, no exception
\* leaves run(), and the tests of every later file are still executed.
C7_BadFilesSkipped ==
  /\ outcome.kind # "exception"
  /\ \A c \in Range(createCalls) : files[c[1]].kind = "ok"
  /\ (pc \in EndPcs /\ ~shouldStop) =>
       \A f \in DOMAIN files : \A t \in 1..NumTests(f) : <<f, t>> \in Range(createCalls)

\* C8: on every path on which the handlers were registered both are removed
\* before run() ends, each process.on paired with a process.off; when no file
\* is found no handler is ever registered.
C8_HandlersPaired ==
  /\ pc \in EndPcs => (handlers = {} /\ offCalls = onCalls)
  /\ outcome.kind = "nofiles" => onCalls = 0
  /\ (pc \in EndPcs /\ outcome.kind # "nofiles") => onCalls = 2

\* run() ended by an exception that left the batch loop, handlers removed
C8_Witness ==
  /\ pc = "threw"
  /\ onCalls = 2
  /\ handlers = {}

\* C9: when a status query raises, the error reaches the orchestrator, which
\* requests the stop of that run when the client can, records the test as
\* failed exactly once and goes on with the batch; a stop request that fails or
\* a missing stop operation never makes an exception leave run().
C9_PollErrorHandled ==
  /\ \A k \in DOMAIN ended :
       ended[k].how = "pollRaised" =>
         /\ hasStop =>
              [run |-> RunId(ended[k].test[1], ended[k].test[2]), by |-> "catch"]
                \in Range(stops)
         /\ Cardinality({i \in DOMAIN failedTests :
                           failedTests[i] = Label(ended[k].test[1], ended[k].test[2])}) = 1
  /\ pc = "awaitStop" => [run |-> currentRunId, by |-> "catch"] \in Range(stops)
  /\ outcome.kind = "exception" => (fi \in DOMAIN files /\ files[fi].kind = "null")
  /\ (pc \in EndPcs /\ ~shouldStop) => TestsInReach \subseteq Range(createCalls)

\* run() ended, never stopped, after a test whose status query raised and whose
\* stop request was rejected, and a later test
C9_Witness ==
  /\ pc = "done"
  /\ ~shouldStop
  /\ Len(ended) = 2
  /\ ended[1].how = "pollRaised"
  /\ ended[1].diag = "stopError"

\* C10: the poller returns from an observation only when the status is SUCCESS
\* or ERROR; every other status keeps it polling.
C10_UnknownKeepsPolling ==
  \A k \in DOMAIN ended :
    (ended[k].how = "returned" /\ ended[k].diag = "finished")
      => ended[k].status \in {"SUCCESS", "ERROR"}

\* the entry ended gets in this step
NewEnded == ended'[Len(ended')]

\* C11: the poller reports why it stopped: leaving the loop with the stop
\* predicate false (the ceiling was reached) it returns ERROR with the timeout
\* diagnostic, the test is recorded as failed and the test loop goes on;
\* leaving it with the stop predicate true it returns ERROR with the abort
\* diagnostic; a return from an observation carries the finished diagnostic.
C11_ExitReason ==
  [][/\ (pc = "pollLoop" /\ pc' = "testLoop") =>
          /\ NewEnded.how = "returned" /\ NewEnded.status = "ERROR"
          /\ ~shouldStop => /\ elapsed >= TEST_TIMEOUT
                            /\ NewEnded.diag = "timeout"
                            /\ failedTests' = Append(failedTests, Label(fi, ti))
                            /\ ti' = ti + 1 /\ ~exc'
          /\ shouldStop => NewEnded.diag = "aborted"
     /\ (pc = "awaitStatus" /\ pc' = "testLoop" /\ NewEnded.how = "returned") =>
          NewEnded.diag = "finished"
     /\ (pc = "pollLoop" /\ ~shouldStop /\ elapsed >= TEST_TIMEOUT) => pc' = "testLoop"
     /\ (pc = "pollLoop" /\ shouldStop) => pc' = "testLoop"]_vars

\* run() ended after a test that timed out and a later test that was aborted
C11_Witness ==
  /\ pc = "done"
  /\ Len(ended) = 2
  /\ ended[1].diag = "timeout"
  /\ ended[2].diag = "aborted"

\* C12: when every file found is structurally invalid run() reports a failure
\* and never the success outcome; with some files invalid, at least one test
\* executed and every executed test succeeding, the outcome is no failure.
C12_AllInvalidFails ==
  /\ (pc = "done" /\ Len(files) > 0 /\ \A f \in DOMAIN files : files[f].kind # "ok")
       => outcome.kind \notin {"success", "none"}
  /\ (pc = "done" /\ signals = <<>> /\ Len(ended) > 0
        /\ (\E f \in DOMAIN files : files[f].kind # "ok")
        /\ \A k \in DOMAIN ended : ~IsFailure(ended[k]))
       => outcome.kind = "success"

\* the tests that concluded, and the pcs at which a poller is running
EndedTests == {ended[k].test : k \in DOMAIN ended}
PollerPcs == {"pollLoop", "awaitStatus", "sleeping"}

\* C15: the active-run handle is never stale: it is none, or the handle of
\* the one test whose submission returned and that has not concluded; it is
\* none again before the next submission and before run() ends; and a stop
\* issued by the signal handler targets the run of the test in progress at
\* the delivery, never a concluded one.
C15_NoStaleHandle ==
  /\ currentRunId # NoRun =>
       /\ currentRunId = RunId(fi, ti)
       /\ currentLabel = Label(fi, ti)
       /\ pc \in PollerPcs \cup {"awaitStop"}
       /\ createCalls[Len(createCalls)] = <<fi, ti>>
  /\ pc \in AwaitPcs => <<fi, ti>> \notin EndedTests
  /\ pc \notin PollerPcs \cup {"awaitStop"} => currentRunId = NoRun
  /\ \A i \in DOMAIN signals :
       /\ signals[i].run \in {NoRun, RunId(signals[i].test[1], signals[i].test[2])}
       /\ signals[i].at = "awaitCreate" => signals[i].run = NoRun
  /\ \A k \in DOMAIN stops :
       stops[k].by = "signal" => \E i \in DOMAIN signals : signals[i].run = stops[k].run

\* a signal arrived during the submission of a test that follows a concluded
\* one, and no stop was issued although the client can stop
C15_Witness ==
  /\ hasStop
  /\ Len(ended) >= 1
  /\ Len(signals) >= 1
  /\ signals[1].at = "awaitCreate"
  /\ signals[1].test \notin EndedTests
  /\ stops = <<>>

\* the tests of the input from test t of file f on, in file and declared order
RECURSIVE TestsFrom(_, _)
TestsFrom(f, t) ==
  IF f > Len(files) THEN <<>>
  ELSE IF t > NumTests(f) THEN TestsFrom(f + 1, 1)
  ELSE <<<<f, t>>>> \o TestsFrom(f, t + 1)

IsPrefix(a, b) == Len(a) <= Len(b) /\ \A i \in DOMAIN a : a[i] = b[i]

\* C16: tests are submitted in file order and declared order, and createRun
\* is invoked for a test only after the previous test concluded: at most one
\* submitted test has not concluded.
C16_Sequential ==
  /\ IsPrefix(createCalls, TestsFrom(1, 1))
  /\ Len(ended) <= Len(createCalls)
  /\ Len(createCalls) <= Len(ended) + 1
  /\ \A k \in DOMAIN ended : ended[k].test = createCalls[k]
  /\ pc = "awaitCreate" => (Len(createCalls) = Len(ended) + 1 /\ currentRunId = NoRun)

\* two tests of two files were submitted one after the other
C16_Witness ==
  /\ pc = "done"
  /\ Len(createCalls) = 2
  /\ createCalls[1][1] = 1
  /\ createCalls[2][1] = 2
  /\ Len(ended) = 2

\* C17: the first status query of a run is issued with no sleep before it;
\* a sleep is entered only from a WAITING or RUNNING observation and is
\* followed by the loop check; a terminal observation ends the poller with no
\* sleep; a status query is issued only by the running poller of a test that
\* has not concluded.
C17_PollOrder ==
  [][/\ (pc = "awaitCreate" /\ pc' \notin {"awaitCreate", "testLoop"}) =>
          (pc' = "pollLoop" /\ polls' = 0 /\ elapsed' = 0)
     /\ (pc = "pollLoop" /\ polls = 0) => elapsed = 0
     /\ polls' > polls =>
          /\ pc = "pollLoop" /\ pc' = "awaitStatus" /\ polls' = polls + 1
          /\ currentRunId = RunId(fi, ti)
          /\ <<fi, ti>> \notin EndedTests
          /\ elapsed' = elapsed
     /\ (pc' = "sleeping" /\ pc # "sleeping") =>
          (pc = "awaitStatus" /\ polls' = polls /\ ended' = ended)
     /\ (pc = "sleeping" /\ pc' # "sleeping") =>
          (pc' = "pollLoop" /\ elapsed' >= elapsed + PollInterval /\ polls' = polls)
     /\ (pc = "awaitStatus" /\ ended' # ended) => pc' = "testLoop"]_vars

\* a second status query is in flight after one observation and one sleep
C17_Witness ==
  /\ pc = "awaitStatus"
  /\ polls = 2
  /\ elapsed = PollInterval

\* the tests during which a signal was delivered
SignalledTests == {signals[i].test : i \in DOMAIN signals}

\* C20: stop requests come only from the signal handler and from the catch of
\* a failed status query: a run whose poller returned (terminal status or
\* timeout) with no signal during the test gets no stop request, nor does a
\* test whose submission raised; a timed-out run is left as it is.
C20_StopSources ==
  /\ \A k \in DOMAIN stops : stops[k].by \in {"signal", "catch"}
  /\ \A k \in DOMAIN ended :
       /\ (ended[k].how = "returned" /\ ended[k].test \notin SignalledTests)
            => StopsFor(RunId(ended[k].test[1], ended[k].test[2])) = {}
       /\ ended[k].how = "createRaised"
            => StopsFor(RunId(ended[k].test[1], ended[k].test[2])) = {}

\* the next test is being submitted after a run timed out, and no stop
\* request was issued although the client can stop
C20_Witness ==
  /\ hasStop
  /\ pc = "awaitCreate"
  /\ Len(ended) = 1
  /\ ended[1].diag = "timeout"
  /\ stops = <<>>

\* C19: when every remote call settles and time advances across sleeps,
\* run() terminates: no status query is issued once the elapsed time has
\* reached the ceiling, every submitted test concludes, and run() reaches its
\* end with the handlers removed.
C19_Terminates ==
  /\ <>(pc \in EndPcs /\ handlers = {} /\ Len(ended) = Len(createCalls))
  /\ [][polls' > polls => elapsed < TEST_TIMEOUT]_vars

\* run() ended with its handlers removed after a second test that timed out
C19_Witness ==
  /\ pc = "done"
  /\ handlers = {}
  /\ Len(ended) = 2
  /\ ended[2].diag = "timeout"

\* ---------------------------------------------------------------------
\* The resolver on its own: an environment, inputs and an argument are
\* drawn, the function is applied, and applied again to what it returned.

RunIdle ==
  /\ files = <<>> /\ hasStop = FALSE
  /\ pc = "start" /\ fi = 1 /\ ti = 1
  /\ shouldStop = FALSE /\ currentRunId = NoRun /\ currentLabel = NoLabel
  /\ failedTests = <<>> /\ handlers = {} /\ exc = FALSE
  /\ outcome = NoOutcome /\ elapsed = 0 /\ polls = 0
  /\ createCalls = <<>> /\ stops = <<>> /\ signals = <<>> /\ ended = <<>>
  /\ onCalls = 0 /\ offCalls = 0

InitResolver ==
  /\ RunIdle
  /\ rpEnv \in EnvChoices
  /\ rpInputs \in InputChoices
  /\ rpParts \in PartLists
  /\ rpStr \in {TextOf(rpParts)} \cup (IF rpParts = <<>> THEN {Undefined} ELSE {})
  /\ rpOut = <<>>

Resolve ==
  /\ rpOut = <<>>
  /\ rpOut' = <<replacePlaceholders(rpStr)>>
  /\ UNCHANGED <<runVars, rpEnv, rpInputs, rpParts, rpStr>>

ResolveAgain ==
  /\ Len(rpOut) = 1
  /\ rpOut' = Append(rpOut, replacePlaceholders(rpOut[1]))
  /\ UNCHANGED <<runVars, rpEnv, rpInputs, rpParts, rpStr>>

NextResolver == Resolve \/ ResolveAgain

ResolverSpec == InitResolver /\ [][NextResolver]_vars

\* ---------------------------------------------------------------------
\* Claims about the resolver, checked under ResolverSpec.

\* what the contract gives for one piece: the environment variable when it
\* is defined, the input when it is not empty, the piece itself otherwise
Expected(p) ==
  IF p.scope = "env" /\ rpEnv[p.key] # Undefined THEN rpEnv[p.key]
  ELSE IF p.scope = "input" /\ rpInputs[p.key] # <<>> THEN rpInputs[p.key]
  ELSE p.text

ExpectedParts == [i \in DOMAIN rpParts |-> Expected(rpParts[i])]

\* C13: every well-formed token, whatever the case of its scope and the
\* spaces around its inner expression, is replaced by the environment
\* variable when that is defined (the empty string included) or by the
\* input when that is not empty, and is left verbatim otherwise; a token of
\* another scope or with a malformed inner expression, and every other
\* text, is left verbatim.
C13_TokensResolved ==
  (rpOut # <<>> /\ rpStr # Undefined)
    => rpOut[1] = Flatten(ExpectedParts)

\* a padded, mixed-case env token whose variable is the empty string next
\* to an input token whose input is empty: the first vanishes, the second stays
C13_Witness ==
  /\ rpOut # <<>>
  /\ Len(rpParts) = 2
  /\ rpParts[1].text = Token(<<" ">>, <<"E", "n", "V">>, <<"K">>)
  /\ rpParts[2].text = Token(<<>>, InputWord, <<"K">>)
  /\ rpEnv[<<"K">>] = <<>>
  /\ rpInputs[<<"K">>] = <<>>
  /\ rpOut[1] = rpParts[2].text

\* the texts of the well-formed tokens
TokenTexts == { p.text : p \in { q \in Pieces : q.scope # "none" } }

Occurs(t, s) ==
  \E i \in 1..Len(s) :
    /\ i + Len(t) <= Len(s) + 1
    /\ SubSeq(s, i, i + Len(t) - 1) = t

\* an absent value, or a string no well-formed token occurs in
TokenFree(s) == s = Undefined \/ \A t \in TokenTexts : ~Occurs(t, s)

\* C14: an argument that holds no token (an absent value and the empty
\* string included) is returned unchanged, and once a result holds no token
\* any more, resolving it again returns it unchanged.
C14_Identity ==
  /\ (rpOut # <<>> /\ TokenFree(rpStr)) => rpOut[1] = rpStr
  /\ (Len(rpOut) = 2 /\ TokenFree(rpOut[1])) => rpOut[2] = rpOut[1]

\* a malformed token and a brace fragment came back as they were, twice
C14_Witness ==
  /\ Len(rpOut) = 2
  /\ Len(rpParts) = 2
  /\ rpParts[1].text = Token(<<>>, <<"f", "o", "o">>, <<"K">>)
  /\ rpParts[2].text = <<"}", "}">>
  /\ rpOut[1] = rpStr
  /\ rpOut[2] = rpStr

\* where piece i's replacement starts in the result
RECURSIVE Offset(_)
Offset(i) == IF i = 1 THEN 0 ELSE Offset(i - 1) + Len(ExpectedParts[i - 1])

\* C18: a replacement that itself holds a well-formed token stands in the
\* result exactly as the variable or input gave it, at the place of the
\* token it replaced; the pass goes on after it and does not resolve it.
C18_SinglePass ==
  (rpOut # <<>> /\ rpStr # Undefined)
    => \A i \in DOMAIN rpParts :
         LET v == ExpectedParts[i]
         IN  (v # rpParts[i].text /\ ~TokenFree(v))
               => /\ Offset(i) + Len(v) <= Len(rpOut[1])
                  /\ SubSeq(rpOut[1], Offset(i) + 1, Offset(i) + Len(v)) = v

\* K holds a token for M and M is defined: the first pass yields the token
\* for M, and only resolving that result again yields M's value
C18_Witness ==
  /\ Len(rpOut) = 2
  /\ rpParts = << [text |-> Token(<<>>, EnvWord, <<"K">>), scope |-> "env", key |-> <<"K">>] >>
  /\ rpEnv[<<"K">>] = Token(<<>>, EnvWord, <<"M">>)
  /\ rpEnv[<<"M">>] = <<"v">>
  /\ rpOut[1] = Token(<<>>, EnvWord, <<"M">>)
  /\ rpOut[2] = <<"v">>

====
